---- MODULE Spec2Model ----
(***************************************************************************)
(* Lau (src/src/main.rs): the jump devirtualizer (optimize_jmp driven by   *)
(* fixup_code_v1), the mutation engine (try_mutate driven by main's        *)
(* argument loop) and the block viewer (BlocksViewer::outputs,             *)
(* Block::get_target_labels, EApp::populate_map / parse_ron_data).         *)
(***************************************************************************)
EXTENDS Integers, Sequences, FiniteSets, Bags, TLC

\* ------------------------------------------------------------------ bounds
\* labels of the devirtualizer's block maps are 0..MaxLabel
MaxLabel == 3
\* keys and labels of the mutated containers are 1..MaxKey
MaxKey == 2
\* longest container handed to the mutation engine
MaxLen == 2
\* longest list of queued mutation steps
MaxSteps == 3
\* depth of the Function tree (root is depth 0)
MaxDepth == 2

Labels == 0..MaxLabel
KeyVals == 1..MaxKey

\* --------------------------------------------------------- Target, Control
\* Target::Label(n)
Label(n) == [tag |-> "Label", val |-> n]
\* the Target variant that is not Label (matched by `_ => {}`)
Undefined == [tag |-> "Undefined", val |-> 0]

\* Control variants; t1 and t2 are the variant's Target fields in
\* declaration order (Loop(_, on_false, on_true): t1 = on_false, t2 = on_true)
Unconditional(t) == [kind |-> "Unconditional", t1 |-> t, t2 |-> Undefined]
Condition(on_true, on_false) == [kind |-> "Condition", t1 |-> on_true, t2 |-> on_false]
Loop(on_false, on_true) == [kind |-> "Loop", t1 |-> on_false, t2 |-> on_true]
LFalseSkip(t) == [kind |-> "LFalseSkip", t1 |-> t, t2 |-> Undefined]
Return0 == [kind |-> "Return0", t1 |-> Undefined, t2 |-> Undefined]
Return1 == [kind |-> "Return1", t1 |-> Undefined, t2 |-> Undefined]
Return == [kind |-> "Return", t1 |-> Undefined, t2 |-> Undefined]

\* Block::new(label, body, edge)
Block(label, body, edge) == [label |-> label, body |-> body, edge |-> edge]

\* `match target { Target::Label(to_label) => ret.push(*to_label), _ => {} }`
PushLabel(ret, target) ==
  IF target.tag = "Label" THEN Append(ret, target.val) ELSE ret

\* Block::is_unconditionnal
is_unconditionnal(blk) == blk.edge.kind = "Unconditional"

\* Block::get_target_labels
get_target_labels(blk) ==
  CASE blk.edge.kind = "Condition" ->
         PushLabel(PushLabel(<<>>, blk.edge.t1), blk.edge.t2)
    [] blk.edge.kind = "Unconditional" ->
         PushLabel(<<>>, blk.edge.t1)
    [] blk.edge.kind = "Loop" ->
         PushLabel(PushLabel(<<>>, blk.edge.t2), blk.edge.t1)
    [] blk.edge.kind = "LFalseSkip" ->
         PushLabel(<<>>, blk.edge.t1)
    [] OTHER -> <<>>

\* BlocksViewer::outputs
outputs(node) ==
  CASE node.edge.kind = "Unconditional" -> 1
    [] node.edge.kind = "Condition" -> 2
    [] node.edge.kind = "Loop" -> 2
    [] node.edge.kind = "Return" -> 0
    [] node.edge.kind = "Return0" -> 0
    [] node.edge.kind = "Return1" -> 0
    [] node.edge.kind = "LFalseSkip" -> 1
    [] OTHER -> 0

VARIABLES
  \* devirtualizer
  block_list,   \* func_data.block_list read by fixup_code_v1
  block_map,    \* HashMap<u32, Block>
  visited,      \* HashSet<u32>
  stack,        \* activation records of optimize_jmp, innermost last
  arg,          \* node_id of the call of optimize_jmp being entered
  log,          \* the "fake jmp from .. to .. to .." lines printed so far
  \* mutation engine
  mutation,     \* main's `mutation` vector of queued steps
  input,        \* the Function tree read from the file
  func,         \* the Function tree after try_mutate
  \* block viewer
  nodes,        \* EApp::snarl: NodeId -> [value: Block, pos: <<x, y>>]
  node_map,     \* EApp::node_map: label -> NodeId
  wires,        \* the wires of EApp::snarl
  pins,         \* the output pins drawn for each node
  pc

devirt_vars == <<block_map, visited, stack, arg, log>>
mutate_vars == <<mutation, input, func>>
ui_vars == <<nodes, node_map, wires, pins>>
vars == <<block_list, devirt_vars, mutate_vars, ui_vars, pc>>

\* the values the variables of the commands that are not running hold
IdleDevirt ==
  block_map = <<>> /\ visited = {} /\ stack = <<>> /\ arg = 0 /\ log = <<>>
IdleMutate == mutation = <<>> /\ input = <<>> /\ func = <<>>
IdleUi == nodes = <<>> /\ node_map = <<>> /\ wires = {} /\ pins = <<>>

\* ------------------------------------------------------------ devirtualizer
NextLabel(i) == (i + 1) % (MaxLabel + 1)

\* the blocks a RON file may hold under label i
BlockChoices(i) ==
  {Block(i, <<1>>, Return0),
   Block(i, <<1>>, Unconditional(Label(NextLabel(i)))),
   Block(i, <<>>, Condition(Label(NextLabel(i)), Label(NextLabel(NextLabel(i))))),
   Block(i, <<1>>, Loop(Label(i), Label(NextLabel(i))))}
  \cup {Block(i, <<>>, Unconditional(Label(t))) : t \in Labels}

\* the block lists over the labels i..MaxLabel, in ascending label order;
\* a label may be absent, which leaves the edges naming it dangling
RECURSIVE BlockListsFrom(_)
BlockListsFrom(i) ==
  IF i > MaxLabel THEN {<<>>}
  ELSE LET rest == BlockListsFrom(i + 1)
       IN rest \cup {<<b>> \o r : b \in BlockChoices(i), r \in rest}

\* `for block in func_data.block_list { block_map.insert(block.label, block); }`
RECURSIVE InsertAll(_, _)
InsertAll(map, list) ==
  IF list = <<>> THEN map
  ELSE LET block == Head(list)
           keys == DOMAIN map \cup {block.label}
       IN InsertAll([l \in keys |-> IF l = block.label THEN block ELSE map[l]],
                    Tail(list))

\* HashSet::insert: the set afterwards and whether the value was new
HashSetInsert_Always(set, value) ==
  [set |-> set \cup {value}, inserted |-> TRUE]

HashSetInsert(set, value) ==
  [set |-> set \cup {value}, inserted |-> value \notin set]

\* the recursion depth explored; optimize_jmp holds one activation per
\* visited label of the map, so it stays below it
StackCap == MaxLabel + 3

\* where control goes when a call of optimize_jmp returns
ReturnTo(stk) == IF stk = <<>> THEN "done" ELSE "loop"

InitDevirt ==
  /\ block_list \in BlockListsFrom(0)
  /\ block_map = <<>>
  /\ visited = {}
  /\ stack = <<>>
  /\ arg = 0
  /\ log = <<>>
  /\ IdleMutate /\ IdleUi
  /\ pc = "fixup"

\* fixup_code_v1 up to the call of optimize_jmp; `block_map[&r]` panics when
\* no block has label 0
fixup_code_v1 ==
  /\ pc = "fixup"
  /\ block_map' = InsertAll(<<>>, block_list)
  /\ pc' = IF 0 \in DOMAIN block_map' THEN "call" ELSE "panic"
  /\ arg' = 0
  /\ UNCHANGED <<mutate_vars, ui_vars, block_list, visited, stack, log>>

\* optimize_jmp: `if !visited.insert(node_id) { return; }`
AlreadyVisited ==
  /\ pc = "call"
  /\ ~HashSetInsert(visited, arg).inserted
  /\ visited' = HashSetInsert(visited, arg).set
  /\ pc' = ReturnTo(stack)
  /\ UNCHANGED <<mutate_vars, ui_vars, block_list, block_map, stack, arg, log>>

\* optimize_jmp: `if let Some(current_blk) = map.get_mut(&node_id)` fails
EnterMissing ==
  /\ pc = "call"
  /\ HashSetInsert(visited, arg).inserted
  /\ arg \notin DOMAIN block_map
  /\ visited' = HashSetInsert(visited, arg).set
  /\ pc' = ReturnTo(stack)
  /\ UNCHANGED <<mutate_vars, ui_vars, block_list, block_map, stack, arg, log>>

\* optimize_jmp: the block is new and in the map; start the loop over
\* current_blk.get_target_labels()
EnterBlock ==
  /\ pc = "call"
  /\ HashSetInsert(visited, arg).inserted
  /\ arg \in DOMAIN block_map
  /\ Len(stack) < StackCap
  /\ visited' = HashSetInsert(visited, arg).set
  /\ stack' = Append(stack, [node_id |-> arg,
                             targets |-> get_target_labels(block_map[arg]),
                             i |-> 1])
  /\ pc' = "loop"
  /\ UNCHANGED <<mutate_vars, ui_vars, block_list, block_map, arg, log>>

Top == stack[Len(stack)]
Advance == [stack EXCEPT ![Len(stack)].i = @ + 1]

\* the for loop is exhausted: optimize_jmp returns to its caller
LoopExit ==
  /\ pc = "loop"
  /\ Top.i > Len(Top.targets)
  /\ stack' = SubSeq(stack, 1, Len(stack) - 1)
  /\ pc' = ReturnTo(stack')
  /\ UNCHANGED <<mutate_vars, ui_vars, block_list, block_map, visited, arg, log>>

\* the target is not in the map, or the target block has no first target
SkipTarget ==
  /\ pc = "loop"
  /\ Top.i <= Len(Top.targets)
  /\ LET target == Top.targets[Top.i]
     IN \/ target \notin DOMAIN block_map
        \/ /\ target \in DOMAIN block_map
           /\ get_target_labels(block_map[target]) = <<>>
  /\ stack' = Advance
  /\ UNCHANGED <<mutate_vars, ui_vars, block_list, block_map, visited, arg, log, pc>>

\* the target block is an empty unconditional jump: print the fake jump,
\* then recurse into the target's first target
FakeJmp ==
  /\ pc = "loop"
  /\ Top.i <= Len(Top.targets)
  /\ LET target == Top.targets[Top.i]
     IN /\ target \in DOMAIN block_map
        /\ LET target_blk == block_map[target]
           IN /\ get_target_labels(target_blk) # <<>>
              /\ target_blk.body = <<>> /\ is_unconditionnal(target_blk)
              /\ LET target_id == get_target_labels(target_blk)[1]
                 IN /\ log' = Append(log, [from |-> Top.node_id,
                                           via |-> target_blk.label,
                                           to |-> target_id])
                    /\ arg' = target_id
  /\ stack' = Advance
  /\ pc' = "call"
  /\ UNCHANGED <<mutate_vars, ui_vars, block_list, block_map, visited>>

\* the target block is not an empty unconditional jump: recurse into its
\* first target without printing
Recurse ==
  /\ pc = "loop"
  /\ Top.i <= Len(Top.targets)
  /\ LET target == Top.targets[Top.i]
     IN /\ target \in DOMAIN block_map
        /\ LET target_blk == block_map[target]
           IN /\ get_target_labels(target_blk) # <<>>
              /\ ~(target_blk.body = <<>> /\ is_unconditionnal(target_blk))
              /\ arg' = get_target_labels(target_blk)[1]
  /\ stack' = Advance
  /\ pc' = "call"
  /\ UNCHANGED <<mutate_vars, ui_vars, block_list, block_map, visited, log>>

NextDevirt ==
  \/ fixup_code_v1
  \/ AlreadyVisited
  \/ EnterMissing
  \/ EnterBlock
  \/ LoopExit
  \/ SkipTarget
  \/ FakeJmp
  \/ Recurse

Spec == InitDevirt /\ [][NextDevirt]_vars

\* optimize_jmp runs on one thread and nothing suspends it: every enabled
\* step is eventually taken
FairSpec == Spec /\ WF_vars(NextDevirt)


\* ---------------------------------------------------------- mutation engine
\* Function { block_list, child_list, upval_list, value_list }
Function(bl, cl, ul, vl) ==
  [block_list |-> bl, child_list |-> cl, upval_list |-> ul, value_list |-> vl]

\* the key sequences of the containers: every sequence of at most MaxLen keys
KeySeqs == UNION {[1..n -> KeyVals] : n \in 0..MaxLen}

\* a block list with the labels ks; the body tells apart blocks of one label
MkBlocks(ks) == [i \in DOMAIN ks |-> Block(ks[i], <<i>>, Return0)]
\* a list of (key, payload) pairs with the keys ks
MkPairs(ks) == [i \in DOMAIN ks |-> <<ks[i], i>>]

\* the four containers of a Function that the steps reorder
Slots == {"block_list", "child_list", "upval_list", "value_list"}

\* the i-th childless Function of a child list
Stub(i) == Function(<<>>, <<>>, <<>>, <<<<1, i>>>>)

\* a child list with the keys ks, every child childless
MkChildren(ks) == [i \in DOMAIN ks |-> <<ks[i], Stub(i)>>]

\* the Function trees read from a file: a chain of nested closures down to
\* depth MaxDepth, each the first child of its parent under the largest key;
\* the container `slot` of the Function at depth `at` holds the keys ks
\* (in child_list, as further children after the nested closure), and the
\* same container of the root, unless it is child_list, the first two of ks
RECURSIVE Chain(_, _, _, _)
Chain(d, at, slot, ks) ==
  LET here(c) == IF slot # c THEN <<>>
                 ELSE IF d = at THEN ks
                 ELSE IF d = 0 /\ c # "child_list" /\ Len(ks) >= 2 THEN SubSeq(ks, 1, 2)
                 ELSE <<>>
      nested == IF d = MaxDepth THEN <<>>
                ELSE <<<<MaxKey, Chain(d + 1, at, slot, ks)>>>>
  IN Function(MkBlocks(here("block_list")),
              nested \o MkChildren(here("child_list")),
              MkPairs(here("upval_list")),
              MkPairs(here("value_list")))

\* the orders of a shuffle that may repeat an element: any map of 1..n
AnyMaps(n) == [1..n -> 1..n]

\* the permutations of 1..n (the orders of n elements)
Orders(n) == {p \in [1..n -> 1..n] : \A i, j \in 1..n : p[i] = p[j] => i = j}

\* slice.shuffle(&mut rng): every order the generator can leave the slice in
shuffle(s) == {[i \in DOMAIN s |-> s[p[i]]] : p \in Orders(Len(s))}

\* insertion of index x before the indices whose key is not smaller
RECURSIVE InsertUnstable(_, _, _)
InsertUnstable(sorted, x, keys) ==
  IF sorted = <<>> THEN <<x>>
  ELSE IF keys[Head(sorted)] < keys[x]
       THEN <<Head(sorted)>> \o InsertUnstable(Tail(sorted), x, keys)
       ELSE <<x>> \o sorted

\* the insertion step of the stable sort behind sort_by_key: index x goes
\* after every index whose key is smaller or equal
RECURSIVE InsertSorted(_, _, _)
InsertSorted(sorted, x, keys) ==
  IF sorted = <<>> THEN <<x>>
  ELSE IF keys[Head(sorted)] <= keys[x]
       THEN <<Head(sorted)>> \o InsertSorted(Tail(sorted), x, keys)
       ELSE <<x>> \o sorted

\* the order in which the stable sort leaves the first n indices
RECURSIVE StableOrder(_, _)
StableOrder(keys, n) ==
  IF n = 0 THEN <<>> ELSE InsertSorted(StableOrder(keys, n - 1), n, keys)

\* slice.sort_by_key: s in the stable order of the keys of its elements
sort_by_key(s, keys) ==
  LET p == StableOrder(keys, Len(s))
  IN [i \in DOMAIN s |-> s[p[i]]]

\* the keys `|v| v.label` gives the elements of a block list
LabelKeys(s) == [i \in DOMAIN s |-> s[i].label]
\* the keys `|v| Rc::clone(&v.0)` gives the elements of a list of pairs
PairKeys(s) == [i \in DOMAIN s |-> s[i][1]]

\* Mutation::Random
Random(f) ==
  {Function(b, c, u, v) : b \in shuffle(f.block_list), c \in shuffle(f.child_list),
                          u \in shuffle(f.upval_list), v \in shuffle(f.value_list)}

\* Mutation::Sorted
Sorted(f) ==
  Function(sort_by_key(f.block_list, LabelKeys(f.block_list)),
           sort_by_key(f.child_list, PairKeys(f.child_list)),
           sort_by_key(f.upval_list, PairKeys(f.upval_list)),
           sort_by_key(f.value_list, PairKeys(f.value_list)))

\* `for step in opt.iter() { match step { .. } }` from each Function of fs
RECURSIVE RunSteps(_, _)
RunSteps(fs, opt) ==
  IF opt = <<>> THEN fs
  ELSE RunSteps(UNION {IF Head(opt) = "Random" THEN Random(f) ELSE {Sorted(f)} : f \in fs},
                Tail(opt))

RECURSIVE try_mutate(_, _)

\* the child lists a try_mutate that leaves the children alone produces
KeepChildren(child_list, opt) == {child_list}

\* `for data in &mut func.child_list { try_mutate(&mut data.1, opt); }`:
\* every child list the loop can leave behind
RECURSIVE MutateChildren(_, _)
MutateChildren(child_list, opt) ==
  IF child_list = <<>> THEN {<<>>}
  ELSE LET data == Head(child_list)
       IN {<<<<data[1], child>>>> \o rest :
             child \in try_mutate(data[2], opt),
             rest \in MutateChildren(Tail(child_list), opt)}

\* try_mutate: every tree the call can leave behind
try_mutate(f, opt) ==
  RunSteps({[f EXCEPT !.child_list = cl] : cl \in MutateChildren(f.child_list, opt)},
           opt)

InitMutate ==
  /\ \E at \in 0..MaxDepth, slot \in Slots, ks \in KeySeqs :
       input = Chain(0, at, slot, ks)
  /\ func = input
  /\ mutation = <<>>
  /\ block_list = <<>>
  /\ IdleDevirt /\ IdleUi
  /\ pc = "args"

\* main: "-r" | "--randomize"
PushRandom ==
  /\ pc = "args"
  /\ Len(mutation) < MaxSteps
  /\ mutation' = Append(mutation, "Random")
  /\ UNCHANGED <<block_list, devirt_vars, ui_vars, input, func, pc>>

\* main: "-s" | "--sort"
PushSorted ==
  /\ pc = "args"
  /\ Len(mutation) < MaxSteps
  /\ mutation' = Append(mutation, "Sorted")
  /\ UNCHANGED <<block_list, devirt_vars, ui_vars, input, func, pc>>

\* main: "-a" | "-d": assemble_data and disassemble_data run try_mutate on
\* the tree they read, with the steps queued so far
MutateData ==
  /\ pc = "args"
  /\ func' \in try_mutate(input, mutation)
  /\ pc' = "mutated"
  /\ UNCHANGED <<block_list, devirt_vars, ui_vars, input, mutation>>

NextMutate == PushRandom \/ PushSorted \/ MutateData

MutateSpec == InitMutate /\ [][NextMutate]_vars

\* the multiset of the elements of a sequence
BagOf(s) ==
  [x \in {s[i] : i \in DOMAIN s} |-> Cardinality({i \in DOMAIN s : s[i] = x})]

\* a Function tree with the order of every container forgotten
RECURSIVE Content(_)
Content(f) ==
  [blocks |-> BagOf(f.block_list),
   children |-> BagOf([i \in DOMAIN f.child_list |->
                         <<f.child_list[i][1], Content(f.child_list[i][2])>>]),
   upvals |-> BagOf(f.upval_list),
   values |-> BagOf(f.value_list)]

\* the Functions of a tree, each with its depth
RECURSIVE TreeNodes(_, _)
TreeNodes(f, d) ==
  {<<d, f>>} \cup UNION {TreeNodes(f.child_list[i][2], d + 1) : i \in DOMAIN f.child_list}

Ascending(keys) == \A i, j \in DOMAIN keys : i < j => keys[i] <= keys[j]

\* the four containers of one Function are in ascending order of label or key
NodeSorted(f) ==
  /\ Ascending(LabelKeys(f.block_list))
  /\ Ascending(PairKeys(f.child_list))
  /\ Ascending(PairKeys(f.upval_list))
  /\ Ascending(PairKeys(f.value_list))

\* some container of the Function holds two elements of one label or key
NodeHasEqualKeys(f) ==
  \/ \E i, j \in DOMAIN f.block_list : i < j /\ f.block_list[i].label = f.block_list[j].label
  \/ \E i, j \in DOMAIN f.child_list : i < j /\ f.child_list[i][1] = f.child_list[j][1]
  \/ \E i, j \in DOMAIN f.upval_list : i < j /\ f.upval_list[i][1] = f.upval_list[j][1]
  \/ \E i, j \in DOMAIN f.value_list : i < j /\ f.value_list[i][1] = f.value_list[j][1]

Mutated == pc = "mutated"

\* C5: sort idempotence. The tree try_mutate leaves for the steps
\* [Sorted, Sorted] is the tree it leaves for [Sorted]: the same order of
\* block_list, child_list, upval_list and value_list in every Function.
SortIdempotent ==
  (Mutated /\ mutation = <<"Sorted", "Sorted">>) =>
    try_mutate(input, <<"Sorted">>) = {func}

\* [Sorted, Sorted] has run on a tree where a Function below the root holds
\* a container that is out of order and has two elements of one key
SortIdempotentWitness ==
  /\ Mutated /\ mutation = <<"Sorted", "Sorted">>
  /\ func # input
  /\ \E n \in TreeNodes(input, 0) :
       n[1] > 0 /\ NodeHasEqualKeys(n[2]) /\ ~NodeSorted(n[2])

\* C6: try_mutate only reorders. Whatever steps ran, every Function of the
\* tree holds the multiset of blocks, children, upvalues and values it held
\* before the call.
ContentPreserved == Mutated => Content(func) = Content(input)

\* a list with a Random step has run and left the tree in another order
ContentPreservedWitness ==
  /\ Mutated
  /\ \E i \in DOMAIN mutation : mutation[i] = "Random"
  /\ func # input
  /\ \E n \in TreeNodes(func, 0) : n[1] > 0 /\ Len(n[2].block_list) = MaxLen

\* C8: when the last step is Sorted, every Function of the tree, the root
\* and every descendant, ends with its four containers in ascending order.
SortedLastSortsAll ==
  (Mutated /\ mutation # <<>> /\ mutation[Len(mutation)] = "Sorted") =>
    \A n \in TreeNodes(func, 0) : NodeSorted(n[2])

\* Random then Sorted has run on a tree whose root and whose deepest closure
\* were both out of order
SortedLastSortsAllWitness ==
  /\ Mutated
  /\ Len(mutation) >= 2
  /\ mutation[1] = "Random" /\ mutation[Len(mutation)] = "Sorted"
  /\ ~NodeSorted(input)
  /\ \E n \in TreeNodes(input, 0) : n[1] = MaxDepth /\ ~NodeSorted(n[2])

\* -------------------------------------------------------------- block viewer
\* build_tree: `const ROW_DIST: usize = 10; const NODE_DIST: usize = 100;`
ROW_DIST == 10
NODE_DIST == 100

\* the Targets of the edge of the block under view: itself, the other block
\* of the file, a label no block has, and no label
UiTargets == {Label(0), Label(1), Label(2), Undefined}

\* every Control over those targets
UiControls ==
  {Return0, Return1, Return}
  \cup {Unconditional(t) : t \in UiTargets}
  \cup {LFalseSkip(t) : t \in UiTargets}
  \cup {Condition(t, f) : t \in UiTargets, f \in UiTargets}
  \cup {Loop(f, t) : f \in UiTargets, t \in UiTargets}

\* snarl.insert_node(pos, block): the node store afterwards; the new NodeId
\* is the number of nodes inserted before
InsertNode(store, pos, block) ==
  [id \in DOMAIN store \cup {Cardinality(DOMAIN store)} |->
     IF id \in DOMAIN store THEN store[id] ELSE [value |-> block, pos |-> pos]]

\* the loop of populate_map: the node store and the label map after the
\* blocks of the list are inserted in order
RECURSIVE Populate(_, _, _)
Populate(store, map, list) ==
  IF list = <<>> THEN [nodes |-> store, node_map |-> map]
  ELSE LET block == Head(list)
           id == Cardinality(DOMAIN store)
       IN Populate(InsertNode(store, <<0, 0>>, block),
                   [l \in DOMAIN map \cup {block.label} |->
                      IF l = block.label THEN id ELSE map[l]],
                   Tail(list))

\* Block::target_labels_to_nodeid
RECURSIVE LabelsToNodeId(_, _)
LabelsToNodeId(labels, map) ==
  IF labels = <<>> THEN <<>>
  ELSE IF Head(labels) \in DOMAIN map
       THEN <<map[Head(labels)]>> \o LabelsToNodeId(Tail(labels), map)
       ELSE LabelsToNodeId(Tail(labels), map)

target_labels_to_nodeid(blk, map) == LabelsToNodeId(get_target_labels(blk), map)

\* the wire parse_ron_data connects for one target of a block, if any
Connect(map, block, target, output) ==
  IF target.tag = "Label" /\ target.val \in DOMAIN map /\ block.label \in DOMAIN map
  THEN {[out_node |-> map[block.label], output |-> output,
         in_node |-> map[target.val], input |-> 0]}
  ELSE {}

\* the body of `for block in func.block_list` in parse_ron_data
BlockWires(map, block) ==
  CASE block.edge.kind = "Unconditional" ->
         Connect(map, block, block.edge.t1, 0)
    [] block.edge.kind = "Condition" ->
         Connect(map, block, block.edge.t1, 0) \cup Connect(map, block, block.edge.t2, 1)
    [] block.edge.kind = "Loop" ->
         Connect(map, block, block.edge.t2, 0) \cup Connect(map, block, block.edge.t1, 1)
    [] OTHER -> {}

\* EApp::build_tree on st = [visited, nodes], and its loop over node_ids
\* from the k-th NodeId on
RECURSIVE build_tree(_, _, _, _, _), BuildChildren(_, _, _, _, _)
build_tree(st, map, root_idx, start_row, start_col) ==
  IF root_idx \notin DOMAIN st.nodes THEN st
  ELSE LET placed == [st EXCEPT !.nodes[root_idx].pos =
                                   <<start_row * ROW_DIST, start_col * NODE_DIST>>]
           node_ids == target_labels_to_nodeid(st.nodes[root_idx].value, map)
       IN BuildChildren(placed, map, node_ids, 1, start_col)

BuildChildren(st, map, node_ids, k, start_col) ==
  IF k > Len(node_ids) THEN st
  ELSE LET node_id == node_ids[k]
           i == k - 1
       IN IF node_id \in st.visited
          THEN BuildChildren(st, map, node_ids, k + 1, start_col)
          ELSE BuildChildren(
                 build_tree([st EXCEPT !.visited = @ \cup {node_id}], map, node_id,
                            (100 * i) \div Len(node_ids), start_col + 2 * i),
                 map, node_ids, k + 1, start_col)

\* EApp::ranker_v2: the node store with the positions it assigns
ranker_v2(store, map) ==
  build_tree([visited |-> {map[0]}, nodes |-> store], map, map[0], 0, 0).nodes

\* the state EApp::new leaves: one node, no label map, and the file to view
InitUi ==
  /\ \E edge \in UiControls :
       block_list = <<Block(0, <<>>, edge), Block(1, <<1>>, Return0)>>
  /\ nodes = InsertNode(<<>>, <<0, 0>>, Block(1, <<>>, Unconditional(Label(10))))
  /\ node_map = <<>>
  /\ wires = {}
  /\ pins = <<>>
  /\ IdleDevirt /\ IdleMutate
  /\ pc = "new"

\* EApp::populate_map
populate_map ==
  /\ pc = "new"
  /\ LET r == Populate(nodes, <<>>, block_list)
     IN nodes' = r.nodes /\ node_map' = r.node_map
  /\ pc' = "ui"
  /\ UNCHANGED <<block_list, devirt_vars, mutate_vars, wires, pins>>

\* EApp::parse_ron_data, on a click of the parse button
parse_ron_data ==
  /\ pc = "ui"
  /\ wires' = wires \cup UNION {BlockWires(node_map, block_list[i]) : i \in DOMAIN block_list}
  /\ nodes' = ranker_v2(nodes, node_map)
  /\ UNCHANGED <<block_list, devirt_vars, mutate_vars, node_map, pins, pc>>

\* EApp::update: snarl.show asks BlocksViewer::outputs for the pins of
\* every node
Show ==
  /\ pc = "ui"
  /\ pins' = [id \in DOMAIN nodes |-> outputs(nodes[id].value)]
  /\ UNCHANGED <<block_list, devirt_vars, mutate_vars, nodes, node_map, wires, pc>>

NextUi == populate_map \/ parse_ron_data \/ Show

UiSpec == InitUi /\ [][NextUi]_vars

\* the target a two-way edge takes when its condition holds, and when not
TrueTarget(edge) == IF edge.kind = "Loop" THEN edge.t2 ELSE edge.t1
FalseTarget(edge) == IF edge.kind = "Loop" THEN edge.t1 ELSE edge.t2
TwoWay(blk) == blk.edge.kind \in {"Condition", "Loop"}

\* C7: the number of output pins BlocksViewer::outputs gives a block is the
\* number of edges Block::get_target_labels exposes for it.
SuccessorCountMatches ==
  \A id \in DOMAIN pins :
    pins[id] = Len(get_target_labels(nodes[id].value))

\* C10: for a Condition or Loop block, position 0 of get_target_labels and
\* output pin 0 carry the true edge, position 1 and output pin 1 the false
\* edge.
CanonicalEdgeOrder ==
  \A id \in DOMAIN nodes :
    LET blk == nodes[id].value
        tl == get_target_labels(blk)
    IN (pc = "ui" /\ TwoWay(blk)) =>
         /\ Len(tl) >= 1 => Label(tl[1]) = TrueTarget(blk.edge)
         /\ Len(tl) >= 2 => Label(tl[2]) = FalseTarget(blk.edge)
         /\ \A w \in wires :
              w.out_node = id =>
                /\ w.output = 0 => w.in_node = node_map[TrueTarget(blk.edge).val]
                /\ w.output = 1 => w.in_node = node_map[FalseTarget(blk.edge).val]

\* ------------------------------------------------- devirtualizer properties
\* the block map fixup_code_v1 builds from the file, before any rewrite
Given == InsertAll(<<>>, block_list)

\* a trampoline: an empty block whose edge is Unconditional(Label(_))
IsTrampoline(map, l) ==
  /\ l \in DOMAIN map
  /\ map[l].body = <<>>
  /\ map[l].edge.kind = "Unconditional"
  /\ map[l].edge.t1.tag = "Label"

\* the label a trampoline jumps to
Hop(map, l) == map[l].edge.t1.val

\* the label a jump to l lands on once every trampoline is skipped, or -1
\* when the trampolines from l form a cycle
RECURSIVE FinalDestination(_, _, _)
FinalDestination(map, l, seen) ==
  IF ~IsTrampoline(map, l) THEN l
  ELSE IF l \in seen THEN -1
  ELSE FinalDestination(map, Hop(map, l), seen \cup {l})

\* the labels of the blocks of the map that the edges lead to from `from`
RECURSIVE Reachable(_, _)
Reachable(map, from) ==
  LET more == from \cup {t \in DOMAIN map :
                 \E l \in from : \E k \in DOMAIN get_target_labels(map[l]) :
                   get_target_labels(map[l])[k] = t}
  IN IF more = from THEN from ELSE Reachable(map, more)

Returned == pc = "done"

\* C1: the walk optimize_jmp starts from an empty visited set returns,
\* whatever the block map: cycles and dangling labels included.
OptimizeJmpTerminates == (pc = "call") ~> Returned

\* the walk has returned on a map where blocks 0 and 1 are trampolines
\* that jump to each other and some edge names a label no block has
OptimizeJmpTerminatesWitness ==
  /\ Returned
  /\ IsTrampoline(block_map, 0) /\ Hop(block_map, 0) = 1
  /\ IsTrampoline(block_map, 1) /\ Hop(block_map, 1) = 0
  /\ \E l \in DOMAIN block_map : \E k \in DOMAIN get_target_labels(block_map[l]) :
       get_target_labels(block_map[l])[k] \notin DOMAIN block_map

\* the file holds Entry = 0 -> T1 = 1 -> T2 = 2 -> Target = 3, T1 and T2
\* trampolines, Target not
ChainGiven ==
  /\ 0 \in DOMAIN Given
  /\ Given[0].edge = Unconditional(Label(1))
  /\ IsTrampoline(Given, 1) /\ Hop(Given, 1) = 2
  /\ IsTrampoline(Given, 2) /\ Hop(Given, 2) = 3
  /\ 3 \in DOMAIN Given /\ ~IsTrampoline(Given, 3)

\* C2: after devirtualization of Entry -> T1 -> T2 -> Target the edge of
\* Entry in block_map targets Target.
ChainFlattened ==
  (Returned /\ ChainGiven) => block_map[0].edge = Unconditional(Label(3))

\* the file holds the trampolines 0 and 1 jumping to each other
CycleGiven ==
  /\ IsTrampoline(Given, 0) /\ Hop(Given, 0) = 1
  /\ IsTrampoline(Given, 1) /\ Hop(Given, 1) = 0

\* C3: on a trampoline cycle the devirtualizer neither reports nor performs
\* a rewrite of a jump of the cycle.
CycleUnresolved ==
  (Returned /\ CycleGiven) =>
    /\ \A k \in DOMAIN log : ~(log[k].from \in {0, 1} /\ log[k].via \in {0, 1})
    /\ block_map[0] = Given[0] /\ block_map[1] = Given[1]

\* C4: when optimize_jmp returns, every block reachable from the entry label
\* has been visited.
ReachableVisited ==
  Returned => Reachable(block_map, {0}) \subseteq visited

\* C9: every rewrite reported for a jump that lands on a trampoline chain
\* names the block the chain ends at, never a trampoline of the chain.
RewritesReachFinal ==
  \A k \in DOMAIN log :
    FinalDestination(block_map, log[k].via, {}) \in DOMAIN block_map =>
      log[k].to = FinalDestination(block_map, log[k].via, {})
====
